---- MODULE Spec2Model ----
(***************************************************************************)
(* gitok: parseGitUrl (URL classification by four regular expressions) and *)
(* the gitok pipeline (git clone, sparse-checkout, directory renames and   *)
(* cleanup), modelled from src/src/index.js and src/bin/gitok.js.          *)
(*                                                                         *)
(* Strings of the program are sequences of one-character strings, so that  *)
(* trimming, regular-expression matching, path joining and template        *)
(* strings are computed character by character as the code computes them.  *)
(***************************************************************************)
EXTENDS Integers, Sequences, FiniteSets, TLC

VARIABLES
  given,      \* the parts the URL was built from: [host, base, marker, rest, decor]
  url,        \* argument `url` of gitok / parseGitUrl
  options,    \* argument `options` of gitok: [output, branch] as the CLI passes them
  parsed,     \* result of parseGitUrl(url): a record, or a thrown error
  outputDir,  \* const outputDir (index.js:164)
  tempDir,    \* const tempDir (index.js:207)
  pc,         \* position of the gitok call
  fs,         \* the working directory: [dirs, files], sets of relative paths
  fs0,        \* the working directory as it was when gitok was called
  env,        \* the environment: [repoTree, ptyAvailable]
  spawned,    \* the command lines handed to executeCommand, in order
  console,    \* lines written by console.log / console.warn, in order
  caught,     \* the error caught by the catch block (index.js:229)
  settled,    \* how the promise returned by gitok settled
  exec,       \* a call of executeCommand on its own: the command, its process, the promise
  cli,        \* the command-line program (bin/gitok.js): arguments, stderr, exit code
  ops,        \* what gitok has awaited so far: process exits, renames, removals
  foreign     \* the paths another process has created in the working directory

vars == <<given, url, options, parsed, outputDir, tempDir, pc, fs, fs0, env,
          spawned, console, caught, settled, exec, cli, ops, foreign>>

----------------------------------------------------------------------------
(* Bounds *)

MaxSegs == 3     \* path segments after the marker in a generated URL

----------------------------------------------------------------------------
(* JavaScript values *)

Null      == <<"null">>        \* the value null
Undefined == <<"undefined">>   \* the value undefined
ANumber   == <<"number">>      \* some value whose typeof is not 'string'
None      == <<"none">>        \* model marker: not assigned yet

IsString(v) == v \notin {Null, Undefined, ANumber, None}

\* JavaScript truthiness of a string-or-nullish value
Truthy(v) == IsString(v) /\ v # <<>>

\* a || b
OrElse(a, b) == IF Truthy(a) THEN a ELSE b

----------------------------------------------------------------------------
(* String primitives *)

Take(s, n) == SubSeq(s, 1, n)
Drop(s, n) == SubSeq(s, n + 1, Len(s))

StartsWith(s, p) == Len(s) >= Len(p) /\ Take(s, Len(p)) = p
EndsWith(s, p)   == Len(s) >= Len(p) /\ Drop(s, Len(s) - Len(p)) = p

\* String.prototype.includes for a one-character needle
\* mutant: only the last character is looked at
Includes_LastOnly(s, c) == s # <<>> /\ s[Len(s)] = c

Includes(s, c) == \E i \in 1..Len(s) : s[i] = c

WhiteSpace == {" ", "\t", "\n"}

RECURSIVE TrimStart(_)
TrimStart(s) ==
  IF s # <<>> /\ Head(s) \in WhiteSpace THEN TrimStart(Tail(s)) ELSE s

RECURSIVE TrimEnd(_)
TrimEnd(s) ==
  IF s # <<>> /\ s[Len(s)] \in WhiteSpace THEN TrimEnd(Take(s, Len(s) - 1)) ELSE s

\* String.prototype.trim
Trim(s) == TrimEnd(TrimStart(s))

\* s.replace(/suffix$/, ''): removes one occurrence of the suffix at the end
ReplaceSuffix(s, suffix) ==
  IF EndsWith(s, suffix) THEN Take(s, Len(s) - Len(suffix)) ELSE s


RECURSIVE Join(_, _)
Join(ss, sep) ==
  IF ss = <<>> THEN <<>>
  ELSE IF Len(ss) = 1 THEN ss[1]
  ELSE ss[1] \o sep \o Join(Tail(ss), sep)

\* String.prototype.split for a one-character separator
RECURSIVE Split(_, _)
Split(s, c) ==
  IF \A i \in 1..Len(s) : s[i] # c THEN <<s>>
  ELSE LET i == CHOOSE k \in 1..Len(s) : s[k] = c /\ \A j \in 1..(k-1) : s[j] # c
       IN  <<Take(s, i - 1)>> \o Split(Drop(s, i), c)

----------------------------------------------------------------------------
(* Regular expressions of parseGitUrl *)

Slash == <<"/">>
DotGit == <<".", "g", "i", "t">>
Https == <<"h","t","t","p","s",":","/","/">>
GithubHost == <<"g","i","t","h","u","b",".","c","o","m">>
GitlabHost == <<"g","i","t","l","a","b",".","c","o","m">>
TreeWord == <<"t","r","e","e">>
Dash == <<"-">>

\* pattern elements
Lit(v)    == [t |-> "lit", v |-> v]     \* literal text
OptLit(v) == [t |-> "opt", v |-> v]     \* (?:text)?
SegGroup  == [t |-> "seg", v |-> <<>>]  \* ([^\/]+)
AnyGroup  == [t |-> "any", v |-> <<>>]  \* (.+)
EndAnchor == [t |-> "end", v |-> <<>>]  \* $

NoMatch == [matched |-> FALSE, caps |-> <<>>]

\* length of the longest prefix of s whose characters are all outside `stop`
RECURSIVE RunLen(_, _)
RunLen(s, stop) ==
  IF s = <<>> \/ Head(s) \in stop THEN 0 ELSE 1 + RunLen(Tail(s), stop)

\* Backtracking match of the pattern at the start of s (the patterns all
\* begin with ^): greedy quantifiers try the longest repetition first.
RECURSIVE MatchFrom(_, _, _)
RECURSIVE TryLen(_, _, _, _)
MatchFrom(pat, s, caps) ==
  IF pat = <<>> THEN [matched |-> TRUE, caps |-> caps]
  ELSE LET e == Head(pat) IN
    CASE e.t = "lit" ->
           IF StartsWith(s, e.v) THEN MatchFrom(Tail(pat), Drop(s, Len(e.v)), caps)
           ELSE NoMatch
      [] e.t = "opt" ->
           LET with == IF StartsWith(s, e.v)
                       THEN MatchFrom(Tail(pat), Drop(s, Len(e.v)), caps)
                       ELSE NoMatch
           IN  IF with.matched THEN with ELSE MatchFrom(Tail(pat), s, caps)
      [] e.t = "end" ->
           IF s = <<>> THEN MatchFrom(Tail(pat), s, caps) ELSE NoMatch
      [] e.t = "seg" -> TryLen(pat, s, caps, RunLen(s, {"/"}))
      [] e.t = "any" -> TryLen(pat, s, caps, RunLen(s, {"\n"}))

TryLen(pat, s, caps, n) ==
  IF n < 1 THEN NoMatch
  ELSE LET r == MatchFrom(Tail(pat), Drop(s, n), Append(caps, Take(s, n)))
       IN  IF r.matched THEN r ELSE TryLen(pat, s, caps, n - 1)

\* /^https:\/\/<host>\/([^\/]+)\/([^\/]+)(?:\.git)?$/
BasicPattern(host) ==
  << Lit(Https \o host \o Slash), SegGroup, Lit(Slash), SegGroup,
     OptLit(DotGit), EndAnchor >>

\* mutant: the path group written ([^\/]+) instead of (.+)
GithubTreePattern_OneSegment ==
  << Lit(Https \o GithubHost \o Slash), SegGroup, Lit(Slash), SegGroup,
     Lit(Slash \o TreeWord \o Slash), SegGroup, Lit(Slash), SegGroup, EndAnchor >>

\* /^https:\/\/github\.com\/([^\/]+)\/([^\/]+)\/tree\/([^\/]+)\/(.+)$/
GithubTreePattern ==
  << Lit(Https \o GithubHost \o Slash), SegGroup, Lit(Slash), SegGroup,
     Lit(Slash \o TreeWord \o Slash), SegGroup, Lit(Slash), AnyGroup, EndAnchor >>

\* /^https:\/\/gitlab\.com\/([^\/]+)\/([^\/]+)\/-\/tree\/([^\/]+)\/(.+)$/
GitlabTreePattern ==
  << Lit(Https \o GitlabHost \o Slash), SegGroup, Lit(Slash), SegGroup,
     Lit(Slash \o Dash \o Slash \o TreeWord \o Slash), SegGroup, Lit(Slash),
     AnyGroup, EndAnchor >>

\* mutant: the basic pattern written with another host
githubBasicMatch_OtherHost(u) ==
  MatchFrom(BasicPattern(<<"x",".","o","r","g">>), u, <<>>)

githubBasicMatch(u) == MatchFrom(BasicPattern(GithubHost), u, <<>>)
githubTreeMatch(u)  == MatchFrom(GithubTreePattern, u, <<>>)
\* mutant: the GitLab pattern written with the GitHub host
gitlabBasicMatch_GithubHost(u) == MatchFrom(BasicPattern(GithubHost), u, <<>>)
gitlabBasicMatch(u) == MatchFrom(BasicPattern(GitlabHost), u, <<>>)
gitlabTreeMatch(u)  == MatchFrom(GitlabTreePattern, u, <<>>)

----------------------------------------------------------------------------
(* parseGitUrl *)

InvalidExpectedTreeBlob == "Invalid Git URL format. Expected: https://github.com/owner/repo, https://gitlab.com/owner/repo, or tree/blob URLs"
InvalidQueryFragment == "Invalid Git URL format. URLs with query parameters or fragments are not supported"
InvalidExpectedRespective == "Invalid Git URL format. Expected: https://github.com/owner/repo, https://gitlab.com/owner/repo, or their respective tree/blob URLs"

Threw(msg) == [threw |-> TRUE, message |-> msg]

\* mutant: the .git suffix of the repo segment is kept
ParseResult_KeepSuffix(platform, host, owner, repo, branch, subPath) ==
  [ threw    |-> FALSE,
    platform |-> platform,
    host     |-> host,
    owner    |-> owner,
    repo     |-> repo,
    branch   |-> OrElse(branch, Null),
    subPath  |-> OrElse(subPath, <<>>),
    gitUrl   |-> Https \o host \o Slash \o owner \o Slash \o repo \o DotGit,
    repoName |-> repo ]

\* the object returned at index.js:62-71
ParseResult(platform, host, owner, repo, branch, subPath) ==
  LET repoName == ReplaceSuffix(repo, DotGit) IN
  [ threw    |-> FALSE,
    platform |-> platform,
    host     |-> host,
    owner    |-> owner,
    repo     |-> repoName,
    branch   |-> OrElse(branch, Null),
    subPath  |-> OrElse(subPath, <<>>),
    gitUrl   |-> Https \o host \o Slash \o owner \o Slash \o repoName \o DotGit,
    repoName |-> repoName ]

\* mutant: the URL is not trimmed
NormalizeUrl_NoTrim(u) == ReplaceSuffix(u, Slash)

\* url.trim().replace(/\/$/, '')
NormalizeUrl(u) == ReplaceSuffix(Trim(u), Slash)

parseGitUrl(u0) ==
  IF ~Truthy(u0) THEN Threw(InvalidExpectedTreeBlob)
  ELSE LET u == NormalizeUrl(u0) IN
    IF Includes(u, "?") \/ Includes(u, "#") THEN Threw(InvalidQueryFragment)
    ELSE LET ghB == githubBasicMatch(u)
             ghT == githubTreeMatch(u)
             glB == gitlabBasicMatch(u)
             glT == gitlabTreeMatch(u)
         IN  IF ghB.matched THEN
               ParseResult("github", GithubHost, ghB.caps[1], ghB.caps[2], Null, <<>>)
             ELSE IF ghT.matched THEN
               ParseResult("github", GithubHost, ghT.caps[1], ghT.caps[2], ghT.caps[3], ghT.caps[4])
             ELSE IF glB.matched THEN
               ParseResult("gitlab", GitlabHost, glB.caps[1], glB.caps[2], Null, <<>>)
             ELSE IF glT.matched THEN
               ParseResult("gitlab", GitlabHost, glT.caps[1], glT.caps[2], glT.caps[3], glT.caps[4])
             ELSE Threw(InvalidExpectedRespective)

----------------------------------------------------------------------------
(* Paths and the file system (node:path, fs/promises) *)

\* the segments a path string resolves to, relative to the working
\* directory: empty segments and "." are dropped, ".." leaves a directory
RECURSIVE Resolve(_, _)
Resolve(segs, acc) ==
  IF segs = <<>> THEN acc
  ELSE LET s == Head(segs) IN
    IF s = <<>> \/ s = <<".">> THEN Resolve(Tail(segs), acc)
    ELSE IF s = <<".", ".">> THEN
      Resolve(Tail(segs), IF acc = <<>> THEN acc ELSE Take(acc, Len(acc) - 1))
    ELSE Resolve(Tail(segs), Append(acc, s))

PathOf(str) == Resolve(Split(str, "/"), <<>>)

\* path.join(a, b)
pathJoin(a, b) == Join(PathOf(a \o Slash \o b), Slash)

RECURSIVE StripTrailingSlashes(_)
StripTrailingSlashes(s) ==
  IF Len(s) > 1 /\ s[Len(s)] = "/" THEN StripTrailingSlashes(Take(s, Len(s) - 1)) ELSE s

\* path.basename(p)
pathBasename(p) ==
  LET q == StripTrailingSlashes(p)
      parts == Split(q, "/")
  IN  parts[Len(parts)]

IsPrefix(p, q) == Len(p) <= Len(q) /\ Take(q, Len(p)) = p

Under(f, p) == {q \in f.dirs \cup f.files : IsPrefix(p, q)}

\* directoryExists (index.js:134-141): fs.stat succeeded and isDirectory()
directoryExists(f, str) ==
  /\ str # <<>>
  /\ (PathOf(str) = <<>> \/ PathOf(str) \in f.dirs)

\* fs.rm(dirPath, { recursive: true, force: true }) when it succeeds
RemoveTree(f, str) ==
  LET p == PathOf(str) IN
  [dirs  |-> {q \in f.dirs  : ~IsPrefix(p, q)},
   files |-> {q \in f.files : ~IsPrefix(p, q)}]

\* the cases in which rename(2) must fail whatever the environment
RenameMustFail(f, src, dst) ==
  LET s == PathOf(src)
      d == PathOf(dst)
  IN  \/ src = <<>> \/ dst = <<>> \/ s = <<>> \/ d = <<>>
      \/ s \notin f.dirs \cup f.files                       \* ENOENT
      \/ (s \in f.dirs /\ d \in f.files)                    \* ENOTDIR
      \/ (s \in f.files /\ d \in f.dirs)                    \* EISDIR
      \/ (d \in f.dirs /\ Under(f, d) # {d} /\ s # d)       \* ENOTEMPTY
      \/ (IsPrefix(s, d) /\ s # d)                          \* EINVAL
      \/ (Len(d) > 1 /\ Take(d, Len(d) - 1) \notin f.dirs)  \* ENOENT (parent)

\* fs.rename(src, dst) when it succeeds
RenameTree(f, src, dst) ==
  LET s == PathOf(src)
      d == PathOf(dst)
      move(q) == IF IsPrefix(s, q) THEN d \o Drop(q, Len(s)) ELSE q
  IN  IF s = d THEN f
      ELSE [dirs  |-> {move(q) : q \in {x \in f.dirs  : ~IsPrefix(d, x)}},
            files |-> {move(q) : q \in {x \in f.files : ~IsPrefix(d, x)}}]

----------------------------------------------------------------------------
(* The remote repository and the effects of the git commands.  git itself  *)
(* is not part of the program; its effects are those of the command lines  *)
(* issued at index.js:188-198 on a repository that holds a root file, one  *)
(* other directory and, when env.repoTree = "dir", the sub path as a       *)
(* directory with an entry, a nested directory and a sibling file in each  *)
(* parent directory.                                                       *)

ReadmeName  == <<"R">>
LibName     == <<"l">>
EntryName   == <<"e">>
NestedName  == <<"n">>
SiblingName == <<"s">>
HeadName    == <<"H">>

\* the proper non-empty prefixes of a path
Parents(p) == {Take(p, n) : n \in 1..(Len(p) - 1)}

\* the repository's tree below the sub path (cone of `sparse-checkout set`)
ConeTree(sub, tree) ==
  IF tree # "dir" \/ sub = <<>> THEN [dirs |-> {}, files |-> {}]
  ELSE [dirs  |-> Parents(sub) \cup {sub, sub \o <<NestedName>>},
        files |-> {q \o <<SiblingName>> : q \in Parents(sub)}
                  \cup {sub \o <<EntryName>>, sub \o <<NestedName, EntryName>>}]

\* the whole tree of the repository
FullTree(sub, tree) ==
  [dirs  |-> {<<LibName>>} \cup ConeTree(sub, tree).dirs,
   files |-> {<<ReadmeName>>, <<LibName, EntryName>>} \cup ConeTree(sub, tree).files]

Graft(f, at, t) ==
  [dirs  |-> f.dirs  \cup {at \o q : q \in t.dirs},
   files |-> f.files \cup {at \o q : q \in t.files}]

\* git clone --sparse ... "<outputDir>", exit code 0: .git and the root files
CloneEffect(f, dir) ==
  Graft(f, PathOf(dir),
        [dirs  |-> {<<>>, <<DotGit>>},
         files |-> {<<DotGit, HeadName>>, <<ReadmeName>>}])

\* git clone stopped with a non-zero exit code after creating the directory
ClonePartialEffect(f, dir) ==
  Graft(f, PathOf(dir), [dirs |-> {<<>>, <<DotGit>>}, files |-> {}])

\* git sparse-checkout disable, exit code 0: the whole work tree
DisableEffect(f, dir, sub, tree) == Graft(f, PathOf(dir), FullTree(sub, tree))

\* git sparse-checkout set "<subPath>", exit code 0: the cone of the sub path
SetEffect(f, dir, sub, tree) == Graft(f, PathOf(dir), ConeTree(sub, tree))

ExitCodes == {0, 1, 128}

----------------------------------------------------------------------------
(* Errors and command lines *)

Err(kind, detail) == [kind |-> kind, detail |-> detail]

ParseError(msg)          == Err("parse", <<msg>>)
DirExistsError(dir)      == Err("exists", dir)
CommandFailed(cmd, code) == Err("command", <<cmd, code>>)
NodePtyError             == Err("nodepty", <<>>)
FsError(op)              == Err("fs", <<op>>)
NoError                  == Err("none", <<>>)     \* no error caught

Pending      == [state |-> "pending", error |-> NoError]
Resolved     == [state |-> "resolved", error |-> NoError]
Rejected(e)  == [state |-> "rejected", error |-> e]

\* what resolve(output) settles the promise of executeCommand with
ResolvedWith(output) == [state |-> "resolved", error |-> NoError, value |-> output]

NotParsed    == [called |-> FALSE]   \* parseGitUrl has not been called yet
NotBuilt     == [decor |-> "raw"]    \* the URL was given as it is
NotExecuting == [pc |-> "idle"]      \* executeCommand is not called on its own
NotCli       == [pc |-> "idle"]      \* gitok is called as a function, not from the CLI

\* index.js:187  branch ? ` -b "${branch}"` : ''
branchParam(branch) ==
  IF Truthy(branch) THEN <<" -b \"">> \o branch \o <<"\"">> ELSE <<>>

\* index.js:188
cloneCommand(p, dir) ==
  <<"git clone --depth=1 --filter=blob:none --sparse --single-branch --no-tags ">>
  \o branchParam(p.branch) \o <<" \"">> \o p.gitUrl \o <<"\" \"">> \o dir \o <<"\"">>

disableCommand == <<"git sparse-checkout disable">>
initCommand    == <<"git sparse-checkout init --cone">>
setCommand(p)  == <<"git sparse-checkout set \"">> \o p.subPath \o <<"\"">>

CwdDefault == <<"process.cwd()">>

\* mutant: the sub path is not used for the default name
OutputDirOf_IgnoreSubPath(p, opts) == OrElse(opts.output, p.repoName)

\* index.js:164
OutputDirOf(p, opts) ==
  OrElse(opts.output, IF Truthy(p.subPath) THEN pathBasename(p.subPath) ELSE p.repoName)

\* index.js:207
TempDirOf(dir, now) == dir \o <<"_","t","e","m","p","_">> \o now

Timestamps == {<<"1">>, <<"2">>}

----------------------------------------------------------------------------
(* Inputs of the pipeline specification *)

NameO   == <<"o">>
NameR   == <<"r">>
NameM   == <<"m">>
NameD   == <<"d">>
NameA   == <<"a">>
NameOut == <<"o","u","t">>
NameV   == <<"v">>
OtherHost == <<"x",".","o","r","g">>
NameSub == <<"$","(","x",")">>       \* a repo segment the shell reads as a command substitution

UrlOf(host, segs) == Https \o host \o Slash \o Join(segs, Slash)

PipelineUrls ==
  { UrlOf(GithubHost, <<NameO, NameR>>),
    UrlOf(GitlabHost, <<NameO, NameR \o DotGit>>),
    UrlOf(GithubHost, <<NameO, NameR, TreeWord, NameM, NameD>>),
    UrlOf(GitlabHost, <<NameO, NameR, Dash, TreeWord, NameM, NameD, NameA>>),
    UrlOf(GithubHost, <<NameO, NameR, TreeWord, NameM>>),
    UrlOf(GithubHost, <<NameO, NameR, TreeWord, NameM, NameD>>) \o <<"/", "/">>,
    UrlOf(OtherHost, <<NameO, NameR>>),
    UrlOf(GithubHost, <<NameO, NameR>>) \o <<"?", "t">>,
    UrlOf(GithubHost, <<NameO, NameSub>>),
    Null }

BystanderName == <<"w">>
KeepName      == <<"k">>

\* the working directory before the call: a bystander directory, and the
\* path gitok is going to use absent, an existing directory or a file
InitialFs(dir, pre) ==
  LET base == [dirs |-> {<<BystanderName>>}, files |-> {<<BystanderName, KeepName>>}]
  IN  CASE pre = "absent" -> base
        [] pre = "dir"    -> [dirs  |-> base.dirs \cup {PathOf(dir)},
                              files |-> base.files \cup {PathOf(dir) \o <<KeepName>>}]
        [] pre = "file"   -> [dirs |-> base.dirs, files |-> base.files \cup {PathOf(dir)}]

Init ==
  /\ url \in PipelineUrls
  /\ given = NotBuilt
  /\ options \in [output : {Undefined, <<>>, NameOut}, branch : {Undefined, NameV}]
  /\ env \in [repoTree : {"dir", "missing"}, ptyAvailable : BOOLEAN]
  /\ \E pre \in {"absent", "dir", "file"} :
       LET p == parseGitUrl(url) IN
       fs = IF p.threw THEN InitialFs(<<>>, "absent")
            ELSE InitialFs(OutputDirOf(p, options), pre)
  /\ fs0 = fs
  /\ parsed = NotParsed
  /\ outputDir = None
  /\ tempDir = None
  /\ pc = "call"
  /\ spawned = <<>>
  /\ console = <<>>
  /\ caught = NoError
  /\ settled = Pending
  /\ ops = <<>>
  /\ foreign = {}
  /\ exec = NotExecuting
  /\ cli = NotCli

----------------------------------------------------------------------------
(* gitok (index.js:160-236), one action per stretch between two awaits *)

Log(text, arg) == [text |-> text, arg |-> arg]

\* an awaited operation that has settled: the exit of a git process, a
\* rename, a removal; ok: exit code 0, fulfilled
Op(op, ok) == [op |-> op, ok |-> ok]

\* executeCommand(command, {cwd, outputTransform}) up to pty.spawn
\* (index.js:82-99): the command is started, or the import of node-pty fails
Spawn(cmd, cwd, transform, next) ==
  IF env.ptyAvailable
  THEN /\ spawned' = Append(spawned, [command |-> cmd, cwd |-> cwd, outputTransform |-> transform])
       /\ pc' = next
       /\ caught' = caught
  ELSE /\ spawned' = spawned
       /\ pc' = "catch"
       /\ caught' = NodePtyError

LastCommand == spawned[Len(spawned)].command

\* index.js:161-176: parse, choose the output directory, log, start the stat
GitokCall ==
  /\ pc = "call"
  /\ LET p == parseGitUrl(url) IN
     /\ parsed' = p
     /\ IF p.threw
        THEN /\ settled' = Rejected(ParseError(p.message))
             /\ pc' = "done"
             /\ UNCHANGED <<outputDir, console>>
        ELSE /\ outputDir' = OutputDirOf(p, options)
             /\ console' = Append(console, Log("info", OutputDirOf(p, options)))
             /\ pc' = "checkExists"
             /\ UNCHANGED settled
  /\ UNCHANGED <<ops, foreign, cli, exec, given, url, options, tempDir, fs, fs0, env, spawned, caught>>

\* mutant: the clone is started without the existence check
CheckExists_NoCheck ==
  /\ pc = "checkExists"
  /\ Spawn(cloneCommand(parsed, outputDir), CwdDefault, TRUE, "clone")
  /\ UNCHANGED <<ops, foreign, cli, exec, given, url, options, parsed, outputDir, tempDir, fs, fs0, env, console, settled>>

\* index.js:176-189: the existence check, then the clone is started
CheckExists ==
  /\ pc = "checkExists"
  /\ IF directoryExists(fs, outputDir)
     THEN /\ settled' = Rejected(DirExistsError(outputDir))
          /\ pc' = "done"
          /\ UNCHANGED <<spawned, caught>>
     ELSE /\ Spawn(cloneCommand(parsed, outputDir), CwdDefault, TRUE, "clone")
          /\ UNCHANGED settled
  /\ UNCHANGED <<ops, foreign, cli, exec, given, url, options, parsed, outputDir, tempDir, fs, fs0, env, console>>

\* index.js:189-197: git clone exits; on success the next command is started
CloneExit ==
  /\ pc = "clone"
  /\ \E code \in ExitCodes, partial \in BOOLEAN :
       /\ ops' = Append(ops, Op("exit", code = 0))
       /\ code = 0 => PathOf(outputDir) \notin fs.dirs \cup fs.files
       /\ code = 0 => ~partial
       /\ partial => PathOf(outputDir) \notin fs.dirs \cup fs.files
       /\ fs' = IF code = 0 THEN CloneEffect(fs, outputDir)
                ELSE IF partial THEN ClonePartialEffect(fs, outputDir)
                ELSE fs
       /\ IF code # 0
          THEN /\ caught' = CommandFailed(LastCommand, code)
               /\ pc' = "catch"
               /\ UNCHANGED <<spawned, console>>
          ELSE IF ~Truthy(parsed.subPath)
          THEN /\ Spawn(disableCommand, outputDir, FALSE, "disable")
               /\ UNCHANGED console
          ELSE /\ console' = Append(console, Log("Configuring sparse-checkout...", <<>>))
               /\ Spawn(initCommand, outputDir, FALSE, "init")
  /\ UNCHANGED <<foreign, cli, exec, given, url, options, parsed, outputDir, tempDir, fs0, env, settled>>

\* index.js:193, 222-223: git sparse-checkout disable exits
DisableExit ==
  /\ pc = "disable"
  /\ \E code \in ExitCodes :
       /\ ops' = Append(ops, Op("exit", code = 0))
       /\ IF code = 0
          THEN /\ fs' = DisableEffect(fs, outputDir, PathOf(parsed.subPath), env.repoTree)
               /\ pc' = "checkGit"
               /\ UNCHANGED caught
          ELSE /\ caught' = CommandFailed(LastCommand, code)
               /\ pc' = "catch"
               /\ UNCHANGED fs
  /\ UNCHANGED <<foreign, cli, exec, given, url, options, parsed, outputDir, tempDir, fs0, env, spawned, console, settled>>

\* mutant: set is started whatever init exited with
InitExit_IgnoreExit ==
  /\ pc = "init"
  /\ \E code \in ExitCodes :
       /\ ops' = Append(ops, Op("exit", code = 0))
       /\ Spawn(setCommand(parsed), outputDir, TRUE, "set")
  /\ UNCHANGED <<foreign, cli, exec, given, url, options, parsed, outputDir, tempDir, fs, fs0, env, console, settled>>

\* index.js:197-198: git sparse-checkout init --cone exits, set is started
InitExit ==
  /\ pc = "init"
  /\ \E code \in ExitCodes :
       /\ ops' = Append(ops, Op("exit", code = 0))
       /\ IF code = 0
          THEN Spawn(setCommand(parsed), outputDir, TRUE, "set")
          ELSE /\ caught' = CommandFailed(LastCommand, code)
               /\ pc' = "catch"
               /\ UNCHANGED spawned
  /\ UNCHANGED <<foreign, cli, exec, given, url, options, parsed, outputDir, tempDir, fs, fs0, env, console, settled>>

\* index.js:198-203: git sparse-checkout set exits
SetExit ==
  /\ pc = "set"
  /\ \E code \in ExitCodes :
       /\ ops' = Append(ops, Op("exit", code = 0))
       /\ IF code = 0
          THEN /\ fs' = SetEffect(fs, outputDir, PathOf(parsed.subPath), env.repoTree)
               /\ pc' = "checkSub"
               /\ UNCHANGED caught
          ELSE /\ caught' = CommandFailed(LastCommand, code)
               /\ pc' = "catch"
               /\ UNCHANGED fs
  /\ UNCHANGED <<foreign, cli, exec, given, url, options, parsed, outputDir, tempDir, fs0, env, spawned, console, settled>>

\* index.js:201-210: is the sub directory there?  then name the temporary one
CheckSubDir ==
  /\ pc = "checkSub"
  /\ IF directoryExists(fs, pathJoin(outputDir, parsed.subPath))
     THEN \E now \in Timestamps :
            /\ tempDir' = TempDirOf(outputDir, now)
            /\ pc' = "rename1"
     ELSE /\ pc' = "checkGit"
          /\ UNCHANGED tempDir
  /\ UNCHANGED <<ops, foreign, cli, exec, given, url, options, parsed, outputDir, fs, fs0, env, spawned, console, caught, settled>>

\* fs.rename(src, dst) settles: done, or rejected with an error
RenameStep(src, dst, next) ==
  \E ok \in BOOLEAN :
    /\ ok => ~RenameMustFail(fs, src, dst)
    /\ ops' = Append(ops, Op("rename", ok))
    /\ IF ok
       THEN /\ fs' = RenameTree(fs, src, dst)
            /\ pc' = next
            /\ UNCHANGED caught
       ELSE /\ caught' = FsError("rename")
            /\ pc' = "catch"
            /\ UNCHANGED fs

\* index.js:210
RenameToTemp ==
  /\ pc = "rename1"
  /\ RenameStep(outputDir, tempDir, "rename2")
  /\ UNCHANGED <<foreign, cli, exec, given, url, options, parsed, outputDir, tempDir, fs0, env, spawned, console, settled>>

\* index.js:213-214
RenameSubDir ==
  /\ pc = "rename2"
  /\ RenameStep(pathJoin(tempDir, parsed.subPath), outputDir, "rmTemp")
  /\ UNCHANGED <<foreign, cli, exec, given, url, options, parsed, outputDir, tempDir, fs0, env, spawned, console, settled>>

\* removeDirectory(dirPath) (index.js:147-153): fs.rm removes the tree, or
\* fails and only a warning is logged
removeDirectory(dirPath) ==
  \E ok \in BOOLEAN :
    /\ ops' = Append(ops, Op("rm", ok))
    /\ IF ok
       THEN /\ fs' = RemoveTree(fs, dirPath)
            /\ UNCHANGED console
       ELSE /\ console' = Append(console, Log("Warning: Could not remove directory", dirPath))
            /\ UNCHANGED fs

\* index.js:217
RemoveTemp ==
  /\ pc = "rmTemp"
  /\ removeDirectory(tempDir)
  /\ pc' = "checkGit"
  /\ UNCHANGED <<foreign, cli, exec, given, url, options, parsed, outputDir, tempDir, fs0, env, spawned, caught, settled>>

\* mutant: step 3 is left out
CheckGitDir_NoRemoval ==
  /\ pc = "checkGit"
  /\ console' = Append(console, Log("Done", outputDir))
  /\ settled' = Resolved
  /\ pc' = "done"
  /\ UNCHANGED <<ops, foreign, cli, exec, given, url, options, parsed, outputDir, tempDir, fs, fs0, env, spawned, caught>>

\* index.js:222-227: is there a .git directory?  if not, done
CheckGitDir ==
  /\ pc = "checkGit"
  /\ IF directoryExists(fs, pathJoin(outputDir, DotGit))
     THEN /\ pc' = "rmGit"
          /\ UNCHANGED <<console, settled>>
     ELSE /\ console' = Append(console, Log("Done", outputDir))
          /\ settled' = Resolved
          /\ pc' = "done"
  /\ UNCHANGED <<ops, foreign, cli, exec, given, url, options, parsed, outputDir, tempDir, fs, fs0, env, spawned, caught>>

\* index.js:224-227
RemoveGitDir ==
  /\ pc = "rmGit"
  /\ \E ok \in BOOLEAN :
       /\ ops' = Append(ops, Op("rm", ok))
       /\ IF ok
          THEN /\ fs' = RemoveTree(fs, pathJoin(outputDir, DotGit))
               /\ console' = Append(console, Log("Done", outputDir))
          ELSE /\ console' = console \o << Log("Warning: Could not remove directory", pathJoin(outputDir, DotGit)),
                                           Log("Done", outputDir) >>
               /\ UNCHANGED fs
  /\ settled' = Resolved
  /\ pc' = "done"
  /\ UNCHANGED <<foreign, cli, exec, given, url, options, parsed, outputDir, tempDir, fs0, env, spawned, caught>>

\* mutant: the error is rethrown without the cleanup
CatchCheck_NoCleanup ==
  /\ pc = "catch"
  /\ settled' = Rejected(caught)
  /\ pc' = "done"
  /\ UNCHANGED <<ops, foreign, cli, exec, given, url, options, parsed, outputDir, tempDir, fs, fs0, env, spawned, console, caught>>

\* index.js:229-234: catch, is the output directory there?
CatchCheck ==
  /\ pc = "catch"
  /\ IF directoryExists(fs, outputDir)
     THEN /\ pc' = "catchRm"
          /\ UNCHANGED settled
     ELSE /\ settled' = Rejected(caught)
          /\ pc' = "done"
  /\ UNCHANGED <<ops, foreign, cli, exec, given, url, options, parsed, outputDir, tempDir, fs, fs0, env, spawned, console, caught>>

\* mutant: the catch block cleans up and does not rethrow
CatchRemove_NoRethrow ==
  /\ pc = "catchRm"
  /\ removeDirectory(outputDir)
  /\ settled' = Resolved
  /\ pc' = "done"
  /\ UNCHANGED <<foreign, cli, exec, given, url, options, parsed, outputDir, tempDir, fs0, env, spawned, caught>>

\* mutant: a failure of the cleanup replaces the error that is rethrown
CatchRemove_ThrowsRemovalError ==
  /\ pc = "catchRm"
  /\ \E ok \in BOOLEAN :
       /\ ops' = Append(ops, Op("rm", ok))
       /\ fs' = IF ok THEN RemoveTree(fs, outputDir) ELSE fs
       /\ settled' = IF ok THEN Rejected(caught) ELSE Rejected(FsError("rm"))
  /\ pc' = "done"
  /\ UNCHANGED <<foreign, cli, exec, given, url, options, parsed, outputDir, tempDir, fs0, env, spawned, console, caught>>

\* index.js:232-234: remove it and rethrow
CatchRemove ==
  /\ pc = "catchRm"
  /\ removeDirectory(outputDir)
  /\ settled' = Rejected(caught)
  /\ pc' = "done"
  /\ UNCHANGED <<foreign, cli, exec, given, url, options, parsed, outputDir, tempDir, fs0, env, spawned, caught>>

Next ==
  \/ GitokCall
  \/ CheckExists
  \/ CloneExit
  \/ DisableExit
  \/ InitExit
  \/ SetExit
  \/ CheckSubDir
  \/ RenameToTemp
  \/ RenameSubDir
  \/ RemoveTemp
  \/ CheckGitDir
  \/ RemoveGitDir
  \/ CatchCheck
  \/ CatchRemove

Spec == Init /\ [][Next]_vars

\* the positions of a call of gitok: the stretches of code between its awaits
Positions ==
  {"call", "checkExists", "clone", "disable", "init", "set", "checkSub",
   "rename1", "rename2", "rmTemp", "checkGit", "rmGit", "catch", "catchRm",
   "done"}

\* a call that has not settled moves on to another position
Advance ==
  /\ pc # "done"
  /\ pc' \in Positions

\* every spawned process exits and every file-system operation returns: a
\* call that has not settled does not wait for ever. Every step of Next
\* changes pc and every state before "done" has a step of Next, so this is
\* weak fairness of Next, written on pc alone.
SpecFair == Init /\ [][Next]_vars /\ WF_pc(Advance)

----------------------------------------------------------------------------
(* parseGitUrl on its own: the URL is built from a host, path segments and *)
(* a decoration, and parseGitUrl is applied to it.                         *)

Hosts == {Https \o GithubHost, Https \o GitlabHost, Https \o OtherHost}

SegChoices == {NameO, NameM, NameR \o DotGit, TreeWord}

Markers == {<<>>, <<TreeWord>>, <<Dash, TreeWord>>, <<Dash>>}

Decorations == {"none", "slash", "spaces", "query", "fragment", "inside"}

Decorate(u, decor) ==
  CASE decor = "none"     -> u
    [] decor = "slash"    -> u \o Slash
    [] decor = "spaces"   -> <<" ">> \o u \o <<" ">>
    [] decor = "query"    -> u \o <<"?", "t">>
    [] decor = "fragment" -> u \o <<"#", "t">>
    [] decor = "inside"   -> Take(u, Len(u) - 1) \o <<"?">> \o Drop(u, Len(u) - 1)

SegSeqs(max) == UNION {[1..n -> SegChoices] : n \in 0..max}

\* the path segments of a generated URL: up to two leading segments, a
\* marker, and up to MaxSegs further segments
SegsOf(g) == g.base \o g.marker \o g.rest

BuildUrl(g) == Decorate(g.host \o Slash \o Join(SegsOf(g), Slash), g.decor)

NonStrings == {Null, Undefined, ANumber}

\* URLs given as they are: a repo segment that is the bare suffix '.git',
\* one the shell reads as a command substitution, one with white space after
\* the repo, a tree URL whose path is a single '/'
RawUrls ==
  { UrlOf(GithubHost, <<NameO, DotGit>>),
    UrlOf(GithubHost, <<NameO, NameSub>>),
    UrlOf(GitlabHost, <<NameO, NameR>>) \o <<" ">>,
    UrlOf(GithubHost, <<NameO, NameR, TreeWord, NameM>>) \o <<"/", "/", "/">> }

InitParse ==
  /\ \/ /\ given \in [host : Hosts, base : SegSeqs(2), marker : Markers,
                      rest : SegSeqs(MaxSegs), decor : Decorations]
        /\ url = BuildUrl(given)
     \/ /\ given = NotBuilt
        /\ url \in NonStrings \cup {<<>>} \cup RawUrls
  /\ options = [output |-> Undefined, branch |-> Undefined]
  /\ env = [repoTree |-> "dir", ptyAvailable |-> TRUE]
  /\ fs = InitialFs(<<>>, "absent")
  /\ fs0 = fs
  /\ parsed = NotParsed
  /\ outputDir = None
  /\ tempDir = None
  /\ pc = "parse"
  /\ spawned = <<>>
  /\ console = <<>>
  /\ caught = NoError
  /\ settled = Pending
  /\ ops = <<>>
  /\ foreign = {}
  /\ exec = NotExecuting
  /\ cli = NotCli

\* const result = parseGitUrl(url)
ParseCall ==
  /\ pc = "parse"
  /\ parsed' = parseGitUrl(url)
  /\ pc' = "parsed"
  /\ UNCHANGED <<ops, foreign, cli, exec, given, url, options, outputDir, tempDir, fs, fs0, env,
                 spawned, console, caught, settled>>

NextParse == ParseCall

SpecParse == InitParse /\ [][NextParse]_vars

----------------------------------------------------------------------------
(* gitok called with an input that is no supported URL: another host, a    *)
(* URL without a repo segment, a string that is no URL, the empty string,  *)
(* a value that is no string.                                              *)

NotAUrl == <<"n","o","t","-","a","-","u","r","l">>
HttpUrl == <<"h","t","t","p",":","/","/">> \o GithubHost \o Slash \o NameO \o Slash \o NameR

UnsupportedShape(g) ==
  \/ g.host = Https \o OtherHost
  \/ Len(SegsOf(g)) < 2

InitUnsupported ==
  /\ \/ /\ given \in {g \in [host : Hosts, base : SegSeqs(2), marker : Markers,
                            rest : SegSeqs(MaxSegs), decor : Decorations] :
                        UnsupportedShape(g)}
        /\ url = BuildUrl(given)
     \/ /\ given = NotBuilt
        /\ url \in NonStrings \cup {<<>>, NotAUrl, HttpUrl}
  /\ options = [output |-> NameOut, branch |-> Undefined]
  /\ env = [repoTree |-> "dir", ptyAvailable |-> TRUE]
  /\ fs = InitialFs(NameOut, "dir")
  /\ fs0 = fs
  /\ parsed = NotParsed
  /\ outputDir = None
  /\ tempDir = None
  /\ pc = "call"
  /\ spawned = <<>>
  /\ console = <<>>
  /\ caught = NoError
  /\ settled = Pending
  /\ ops = <<>>
  /\ foreign = {}
  /\ exec = NotExecuting
  /\ cli = NotCli

NextUnsupported == GitokCall

SpecUnsupported == InitUnsupported /\ [][NextUnsupported]_vars

----------------------------------------------------------------------------
(* executeCommand on its own (index.js:82-127): the import of node-pty,    *)
(* the data handler for each chunk the process writes, the exit handler.   *)

RemotePrefix == <<"r","e","m","o","t","e",":"," ">>
NewLine      == <<"\n">>

\* index.js:180-183
\* data.split('\n').filter(line => !line.startsWith('remote: ')).join('\n')
outputTransform(data) ==
  Join(SelectSeq(Split(data, "\n"), LAMBDA line : ~StartsWith(line, RemotePrefix)), NewLine)

Hello       == <<"h","e","l","l","o">>
PrintfHello == <<"printf \"hello\"">>
ExitTwo     == <<"exit 2">>
GitOutput   == RemotePrefix \o <<"x">> \o NewLine \o <<"o","k">>

\* options.outputTransform of a call: none, the line filter of gitok, or a
\* function that answers null for a chunk that begins with 'remote: '
Transforms == {"none", "filter", "drop"}

ApplyTransform(kind, data) ==
  CASE kind = "none"   -> data
    [] kind = "filter" -> outputTransform(data)
    [] kind = "drop"   -> IF StartsWith(data, RemotePrefix) THEN Null ELSE data

\* what a command does when sh runs it: the text it writes, its exit code
Scripts ==
  { [command |-> PrintfHello, out |-> Hello, code |-> 0],
    [command |-> ExitTwo,     out |-> <<>>,  code |-> 2] }
  \cup { [command |-> initCommand, out |-> GitOutput, code |-> c] : c \in ExitCodes }

\* executeCommand(command, {outputTransform}) has been called
Executing(script, transform, disablePty, ptyAvailable) ==
  [ pc           |-> "call",
    command      |-> script.command,
    remaining    |-> script.out,      \* what the process has still to write
    code         |-> script.code,     \* the code the process exits with
    transform    |-> transform,       \* options.outputTransform: which function
    disablePty   |-> disablePty,      \* process.env.GITOK_DISABLE_PTY is set
    ptyAvailable |-> ptyAvailable,    \* import('node-pty') succeeds
    usedPty      |-> FALSE,           \* pty.spawn has been called
    emitted      |-> <<>>,            \* the chunks handed to onData, in order
    output       |-> <<>>,            \* let output
    written      |-> <<>>,            \* the calls of process.stdout.write
    exitCode     |-> -1,              \* exitCode handed to onExit, -1: none yet
    settles      |-> 0,               \* calls of resolve and reject
    result       |-> Pending ]

gitokVars == <<given, url, options, parsed, outputDir, tempDir, pc, fs, fs0, env,
               spawned, console, caught, settled, ops, foreign>>

InitExec ==
  /\ exec \in { Executing(s, t, d, a) :
                  s \in Scripts, t \in Transforms, d \in BOOLEAN, a \in BOOLEAN }
  /\ given = NotBuilt
  /\ url = Null
  /\ options = [output |-> Undefined, branch |-> Undefined]
  /\ env = [repoTree |-> "dir", ptyAvailable |-> exec.ptyAvailable]
  /\ fs = InitialFs(<<>>, "absent")
  /\ fs0 = fs
  /\ parsed = NotParsed
  /\ outputDir = None
  /\ tempDir = None
  /\ pc = "exec"
  /\ spawned = <<>>
  /\ console = <<>>
  /\ caught = NoError
  /\ settled = Pending
  /\ ops = <<>>
  /\ foreign = {}
  /\ cli = NotCli

\* index.js:86-99 and 123-125: node-pty is imported and sh -c command is
\* spawned, or the import fails and the promise is rejected
ExecImport ==
  /\ exec.pc = "call"
  /\ exec' = IF exec.ptyAvailable
             THEN [exec EXCEPT !.pc = "running", !.usedPty = TRUE]
             ELSE [exec EXCEPT !.pc = "settled",
                               !.result = Rejected(NodePtyError),
                               !.settles = @ + 1]
  /\ UNCHANGED <<cli, gitokVars>>

\* mutant: the transformed data is what is collected
ExecData_CollectsTransformed ==
  /\ exec.pc = "running"
  /\ \E k \in 1..Len(exec.remaining) :
       LET data      == Take(exec.remaining, k)
           processed == ApplyTransform(exec.transform, data)
       IN  exec' = [exec EXCEPT !.remaining = Drop(@, k),
                                !.emitted = Append(@, data),
                                !.output = @ \o (IF processed # Null THEN processed ELSE <<>>),
                                !.written = IF processed # Null
                                            THEN Append(@, processed) ELSE @]
  /\ UNCHANGED <<cli, gitokVars>>

\* index.js:103-113: ptyProcess.onData for the next chunk, of any length
ExecData ==
  /\ exec.pc = "running"
  /\ \E k \in 1..Len(exec.remaining) :
       LET data      == Take(exec.remaining, k)
           processed == ApplyTransform(exec.transform, data)
       IN  exec' = [exec EXCEPT !.remaining = Drop(@, k),
                                !.emitted = Append(@, data),
                                !.output = @ \o data,
                                !.written = IF processed # Null
                                            THEN Append(@, processed) ELSE @]
  /\ UNCHANGED <<cli, gitokVars>>

\* mutant: the exit code is not looked at
ExecExit_AlwaysResolve ==
  /\ exec.pc = "running"
  /\ exec.remaining = <<>>
  /\ exec' = [exec EXCEPT !.pc = "settled",
                          !.exitCode = exec.code,
                          !.result = ResolvedWith(exec.output),
                          !.settles = @ + 1]
  /\ UNCHANGED <<cli, gitokVars>>

\* index.js:115-121: ptyProcess.onExit, after the process has written all
ExecExit ==
  /\ exec.pc = "running"
  /\ exec.remaining = <<>>
  /\ exec' = [exec EXCEPT !.pc = "settled",
                          !.exitCode = exec.code,
                          !.result = IF exec.code = 0
                                     THEN ResolvedWith(exec.output)
                                     ELSE Rejected(CommandFailed(exec.command, exec.code)),
                          !.settles = @ + 1]
  /\ UNCHANGED <<cli, gitokVars>>

NextExec ==
  \/ ExecImport
  \/ ExecData
  \/ ExecExit

SpecExec == InitExec /\ [][NextExec]_vars

----------------------------------------------------------------------------
(* The command-line program (bin/gitok.js): it prints the help when run    *)
(* without arguments, and otherwise calls gitok and reports its error.     *)

\* node bin/gitok.js [url [output]] [-b branch] has been started
CliStarted(hasArgs) ==
  [ pc       |-> "start",
    hasArgs  |-> hasArgs,   \* process.argv.length > 2
    help     |-> FALSE,     \* the help text has been printed
    stderr   |-> <<>>,      \* the calls of console.error
    exitCode |-> -1 ]       \* the code the process ended with, -1: running

InitCli ==
  /\ \E hasArgs \in BOOLEAN :
       /\ cli = CliStarted(hasArgs)
       /\ IF hasArgs
          THEN /\ url \in PipelineUrls \ {Null}
               /\ options \in [output : {Undefined, NameOut}, branch : {Undefined, NameV}]
               /\ env \in [repoTree : {"dir", "missing"}, ptyAvailable : BOOLEAN]
               /\ \E pre \in {"absent", "dir"} :
                    LET p == parseGitUrl(url) IN
                    fs = IF p.threw THEN InitialFs(<<>>, "absent")
                         ELSE InitialFs(OutputDirOf(p, options), pre)
          ELSE /\ url = Undefined
               /\ options = [output |-> Undefined, branch |-> Undefined]
               /\ env \in [repoTree : {"dir"}, ptyAvailable : BOOLEAN]
               /\ fs = InitialFs(<<>>, "absent")
  /\ given = NotBuilt
  /\ fs0 = fs
  /\ parsed = NotParsed
  /\ outputDir = None
  /\ tempDir = None
  /\ pc = "cli"
  /\ spawned = <<>>
  /\ console = <<>>
  /\ caught = NoError
  /\ settled = Pending
  /\ ops = <<>>
  /\ foreign = {}
  /\ exec = NotExecuting

\* bin/gitok.js:54-58 and 41-42: without arguments program.help() prints
\* the help and ends the process with code 0; otherwise program.parse()
\* runs the action, which calls gitok
CliStart ==
  /\ cli.pc = "start"
  /\ IF ~cli.hasArgs
     THEN /\ cli' = [cli EXCEPT !.pc = "exited", !.help = TRUE, !.exitCode = 0]
          /\ UNCHANGED pc
     ELSE /\ cli' = [cli EXCEPT !.pc = "action"]
          /\ pc' = "call"
  /\ UNCHANGED <<exec, given, url, options, parsed, outputDir, tempDir, fs, fs0, env,
                 spawned, console, caught, settled, ops, foreign>>

\* mutant: the error is printed but the process is left to end normally
CliSettle_NoExit ==
  /\ cli.pc = "action"
  /\ pc = "done"
  /\ cli' = IF settled.state = "rejected"
            THEN [cli EXCEPT !.pc = "exited", !.exitCode = 0,
                             !.stderr = Append(@, Log("Error:", settled.error))]
            ELSE [cli EXCEPT !.pc = "exited", !.exitCode = 0]
  /\ UNCHANGED <<exec, gitokVars>>

\* bin/gitok.js:41-52: await gitok(...) settles; a rejection is caught,
\* printed with console.error and ends the process with code 1
CliSettle ==
  /\ cli.pc = "action"
  /\ pc = "done"
  /\ cli' = IF settled.state = "rejected"
            THEN [cli EXCEPT !.pc = "exited", !.exitCode = 1,
                             !.stderr = Append(@, Log("Error:", settled.error))]
            ELSE [cli EXCEPT !.pc = "exited", !.exitCode = 0]
  /\ UNCHANGED <<exec, gitokVars>>

NextCli ==
  \/ CliStart
  \/ Next
  \/ CliSettle

SpecCli == InitCli /\ [][NextCli]_vars

----------------------------------------------------------------------------
(* gitok beside another process that works in the same directory: while    *)
(* git clone is running, after the existence check of gitok (index.js:176) *)
(* has answered, the other process creates the output directory and a file *)
(* in it.                                                                  *)

OtherProcessCreates ==
  /\ pc = "clone"
  /\ foreign = {}
  /\ PathOf(outputDir) \notin fs.dirs \cup fs.files
  /\ fs' = [dirs  |-> fs.dirs \cup {PathOf(outputDir)},
            files |-> fs.files \cup {PathOf(outputDir) \o <<KeepName>>}]
  /\ foreign' = {PathOf(outputDir), PathOf(outputDir) \o <<KeepName>>}
  /\ UNCHANGED <<cli, exec, given, url, options, parsed, outputDir, tempDir, pc, fs0, env,
                 spawned, console, caught, settled, ops>>

NextRace ==
  \/ Next
  \/ OtherProcessCreates

SpecRace == Init /\ [][NextRace]_vars

----------------------------------------------------------------------------
(* Vocabulary of the claims *)

IsResolved == settled.state = "resolved"
IsRejected == settled.state = "rejected"

RejectedWith(kind) == IsRejected /\ settled.error.kind = kind

\* a warning of removeDirectory for this path has been logged
WarnedFor(dirPath) ==
  \E i \in 1..Len(console) :
    console[i] = [text |-> "Warning: Could not remove directory", arg |-> dirPath]

NoRemovalFailed ==
  \A i \in 1..Len(console) : console[i].text # "Warning: Could not remove directory"

DoneLogged == \E i \in 1..Len(console) : console[i].text = "Done"

\* the tree of the working directory below a directory, relative to it
ContentsOf(f, p) ==
  [dirs  |-> {Drop(q, Len(p)) : q \in {x \in f.dirs  : IsPrefix(p, x) /\ x # p}},
   files |-> {Drop(q, Len(p)) : q \in {x \in f.files : IsPrefix(p, x) /\ x # p}}]

\* the entries of the working directory itself
TopLevel(f) == {q \in f.dirs \cup f.files : Len(q) = 1}

\* the output directory gitok is going to use was there, as a directory,
\* when gitok was called
PreExistingDir ==
  LET p == parseGitUrl(url) IN
  /\ ~p.threw
  /\ PathOf(OutputDirOf(p, options)) \in fs0.dirs

IsCloneCommand(cmd) ==
  cmd[1] = "git clone --depth=1 --filter=blob:none --sparse --single-branch --no-tags "

\* the command line carries  -b "<branch>"
HasBranchArg(cmd, branch) ==
  LET arg == <<" -b \"">> \o branch \o <<"\"">> IN
  \E k \in 1..Len(cmd) : k + Len(arg) - 1 <= Len(cmd) /\ SubSeq(cmd, k, k + Len(arg) - 1) = arg

RECURSIVE LastSegment(_)
LastSegment(segs) ==
  IF segs = <<>> THEN <<>>
  ELSE IF segs[Len(segs)] # <<>> THEN segs[Len(segs)]
  ELSE LastSegment(Take(segs, Len(segs) - 1))

----------------------------------------------------------------------------
(* Claims about the pipeline (specification Spec) *)

\* C1: if the output directory already exists as a directory when gitok is
\* called with a valid URL, gitok rejects with the "Directory ... already
\* exists" error, no git subprocess is ever started, and the working
\* directory (the existing directory and its contents included) is unchanged.
C1_ExistingDirRejected ==
  PreExistingDir =>
    /\ spawned = <<>>
    /\ fs = fs0
    /\ pc \in {"call", "checkExists", "done"}
    /\ pc = "done" =>
         settled = Rejected(DirExistsError(OutputDirOf(parseGitUrl(url), options)))

C1_Witness ==
  /\ PreExistingDir
  /\ pc = "done"
  /\ RejectedWith("exists")
  /\ PathOf(outputDir) \o <<KeepName>> \in fs.files

\* C2: if a git subprocess of the pipeline exits with a non-zero code, gitok
\* rejects with that failure, no later step is run (no further command, no
\* rename, no "Done"), and, unless a directory removal failed, the output
\* directory does not exist once gitok has rejected.
C2_CommandFailureCleansUp ==
  caught.kind = "command" =>
    /\ pc \in {"catch", "catchRm", "done"}
    /\ caught.detail[1] = LastCommand
    /\ caught.detail[2] # 0
    /\ tempDir = None
    /\ ~DoneLogged
    /\ pc = "done" =>
         /\ settled = Rejected(caught)
         /\ NoRemovalFailed => PathOf(outputDir) \notin fs.dirs

C2_Witness ==
  /\ RejectedWith("command")
  /\ Len(spawned) = 3
  /\ NoRemovalFailed
  /\ PathOf(outputDir) \notin fs.dirs
  /\ fs = fs0

C4_ExactlyTheSubdirectory ==
  (IsResolved /\ parsed.subPath # <<>>) =>
    ContentsOf(fs, PathOf(outputDir)) =
      ContentsOf(FullTree(PathOf(parsed.subPath), env.repoTree), PathOf(parsed.subPath))

C6_BranchOptionUsed ==
  \A i \in 1..Len(spawned) :
    (Truthy(options.branch) /\ IsCloneCommand(spawned[i].command)) =>
      HasBranchArg(spawned[i].command, options.branch)

----------------------------------------------------------------------------
(* Claims about parseGitUrl (specification SpecParse) *)

Parsed == pc = "parsed" /\ given.decor = "none"

GithubUrl == given.host = Https \o GithubHost
GitlabUrl == given.host = Https \o GitlabHost

\* a repository name as the claims mean it: non-empty, and not itself ending
\* in the .git suffix that parseGitUrl strips
IsRepoName(s) == s # <<>> /\ ~EndsWith(s, DotGit)

\* the segments after .../tree/ of a tree URL (<<>> when it is none)
AfterTree ==
  LET segs == SegsOf(given) IN
  IF GithubUrl /\ Len(segs) >= 4 /\ segs[3] = TreeWord THEN Drop(segs, 3)
  ELSE IF GitlabUrl /\ Len(segs) >= 5 /\ segs[3] = Dash /\ segs[4] = TreeWord THEN Drop(segs, 4)
  ELSE <<>>

\* C7: for every ref name, including names that contain '/', a tree URL
\* built from that ref and a path parses to branch equal to the whole ref name
\* and subPath equal to the path.
C7_AnyRefName ==
  (Parsed /\ Len(AfterTree) >= 2 /\ IsRepoName(SegsOf(given)[2])) =>
    \A k \in 1..(Len(AfterTree) - 1) :
      /\ ~parsed.threw
      /\ parsed.branch = Join(Take(AfterTree, k), Slash)
      /\ parsed.subPath = Join(Drop(AfterTree, k), Slash)

\* C8: for every URL https://github.com/<owner>/<repo> or
\* https://gitlab.com/<owner>/<repo>, parseGitUrl returns the platform and
\* host, the given owner and repo, branch null, subPath '', repoName equal to
\* repo and gitUrl https://<host>/<owner>/<repo>.git.
C8_BasicUrl ==
  (/\ Parsed
   /\ GithubUrl \/ GitlabUrl
   /\ Len(SegsOf(given)) = 2
   /\ IsRepoName(SegsOf(given)[2])) =>
    parsed = [ threw    |-> FALSE,
               platform |-> IF GithubUrl THEN "github" ELSE "gitlab",
               host     |-> Drop(given.host, Len(Https)),
               owner    |-> SegsOf(given)[1],
               repo     |-> SegsOf(given)[2],
               branch   |-> Null,
               subPath  |-> <<>>,
               repoName |-> SegsOf(given)[2],
               gitUrl   |-> given.host \o Slash \o SegsOf(given)[1] \o Slash
                            \o SegsOf(given)[2] \o DotGit ]

C8_Witness ==
  /\ Parsed
  /\ GitlabUrl
  /\ SegsOf(given) = <<NameO, TreeWord>>
  /\ ~parsed.threw
  /\ parsed.platform = "gitlab"
  /\ parsed.repoName = TreeWord

\* C9: for every GitHub URL .../<owner>/<repo>/tree/<branch>/<path> and
\* every GitLab URL .../<owner>/<repo>/-/tree/<branch>/<path>, parseGitUrl
\* returns the given owner, repo and branch, subPath equal to the whole
\* remaining path with all of its segments, and gitUrl
\* https://<host>/<owner>/<repo>.git.
C9_TreeUrl ==
  (/\ Parsed
   /\ Len(AfterTree) >= 2
   /\ IsRepoName(SegsOf(given)[2])) =>
    /\ ~parsed.threw
    /\ parsed.owner = SegsOf(given)[1]
    /\ parsed.repo = SegsOf(given)[2]
    /\ parsed.branch = AfterTree[1]
    /\ parsed.subPath = Join(Tail(AfterTree), Slash)
    /\ parsed.gitUrl = given.host \o Slash \o SegsOf(given)[1] \o Slash
                       \o SegsOf(given)[2] \o DotGit

C9_Witness ==
  /\ Parsed
  /\ GitlabUrl
  /\ SegsOf(given) = <<NameO, NameM, Dash, TreeWord, NameM, NameO, NameR \o DotGit>>
  /\ ~parsed.threw
  /\ parsed.subPath = NameO \o Slash \o NameR \o DotGit

\* C10: a GitHub URL .../<owner>/<repo>/tree/<branch> with no path after the
\* branch is accepted, with branch equal to <branch> and subPath ''.
C10_BranchOnlyUrl ==
  (/\ Parsed
   /\ GithubUrl
   /\ Len(AfterTree) = 1
   /\ IsRepoName(SegsOf(given)[2])) =>
    /\ ~parsed.threw
    /\ parsed.branch = AfterTree[1]
    /\ parsed.subPath = <<>>

\* the repo segment of a basic URL with its trailing .git taken off
RepoWithoutDotGit == Take(SegsOf(given)[2], Len(SegsOf(given)[2]) - Len(DotGit))

\* a URL https://<host>/<owner>/<repo>.git of GitHub or GitLab
BasicDotGitUrl ==
  /\ Parsed
  /\ GithubUrl \/ GitlabUrl
  /\ Len(SegsOf(given)) = 2
  /\ EndsWith(SegsOf(given)[2], DotGit)
  /\ IsRepoName(RepoWithoutDotGit)

\* C11: a trailing .git on a basic URL does not change the parse:
\* parseGitUrl('https://<host>/<owner>/<repo>.git') equals
\* parseGitUrl('https://<host>/<owner>/<repo>'), with repo and repoName free
\* of the .git suffix and gitUrl ending in exactly one '.git'.
C11_DotGitSuffixIgnored ==
  BasicDotGitUrl =>
    /\ parsed = parseGitUrl(given.host \o Slash \o SegsOf(given)[1] \o Slash \o RepoWithoutDotGit)
    /\ ~parsed.threw
    /\ parsed.repo = RepoWithoutDotGit
    /\ parsed.repoName = RepoWithoutDotGit
    /\ parsed.gitUrl = given.host \o Slash \o SegsOf(given)[1] \o Slash
                       \o RepoWithoutDotGit \o DotGit

C11_Witness ==
  /\ BasicDotGitUrl
  /\ GithubUrl
  /\ SegsOf(given) = <<NameO, NameR \o DotGit>>
  /\ parsed.repo = NameR
  /\ parsed.gitUrl = Https \o GithubHost \o Slash \o NameO \o Slash \o NameR \o DotGit

----------------------------------------------------------------------------
(* Claims about rejected inputs *)

\* the three messages parseGitUrl throws with (index.js:17, 25, 56); each
\* of them begins with 'Invalid Git URL format'
InvalidFormatMessages ==
  {InvalidExpectedTreeBlob, InvalidQueryFragment, InvalidExpectedRespective}

\* C12: every input that is not an https URL of github.com or gitlab.com of
\* a supported shape (another host, a missing repo segment, a string that is
\* no URL, the empty string, a value that is no string) makes parseGitUrl
\* throw an error whose message contains 'Invalid Git URL format'; gitok then
\* rejects with it before any subprocess is started and before the file
\* system is touched.
C12_UnsupportedUrlRejected ==
  /\ pc \in {"call", "done"}
  /\ spawned = <<>>
  /\ fs = fs0
  /\ console = <<>>
  /\ pc = "done" =>
       /\ parsed.threw
       /\ parsed.message \in InvalidFormatMessages
       /\ settled = Rejected(ParseError(parsed.message))

C12_Witness ==
  /\ pc = "done"
  /\ given # NotBuilt
  /\ given.host = Https \o GithubHost
  /\ SegsOf(given) = <<NameO>>
  /\ given.decor = "slash"
  /\ RejectedWith("parse")
  /\ PathOf(NameOut) \o <<KeepName>> \in fs.files

\* the URL was built with a '?' or a '#' in it: '?t' or '#t' appended, or a
\* '?' put before its last character
HasQueryOrFragment == given.decor \in {"query", "fragment", "inside"}

\* C13: every URL that contains '?' or '#' anywhere is rejected by
\* parseGitUrl with an 'Invalid Git URL format' error, also when the URL
\* without the query or fragment would be a valid one.
C13_QueryFragmentRejected ==
  (pc = "parsed" /\ HasQueryOrFragment) =>
    /\ parsed.threw
    /\ parsed.message \in InvalidFormatMessages

C13_Witness ==
  /\ pc = "parsed"
  /\ given # NotBuilt
  /\ given.decor = "query"
  /\ GithubUrl
  /\ SegsOf(given) = <<NameO, NameM>>
  /\ HasQueryOrFragment
  /\ ~parseGitUrl(BuildUrl([given EXCEPT !.decor = "none"])).threw
  /\ parsed = Threw(InvalidQueryFragment)

----------------------------------------------------------------------------
(* Claims about executeCommand (specification SpecExec) *)

\* String.prototype.includes for a text
IncludesText(s, sub) ==
  \E k \in 1..(Len(s) + 1) :
    k + Len(sub) - 1 <= Len(s) /\ SubSeq(s, k, k + Len(sub) - 1) = sub

\* C14: with GITOK_DISABLE_PTY set in the environment, executeCommand runs
\* the command without node-pty and resolves with the command's output
\* (executeCommand('printf "hello"') resolves with a string that contains
\* 'hello'), also when node-pty cannot be loaded.
C14_FallsBackWithoutPty ==
  (exec.pc = "settled" /\ exec.disablePty /\ exec.command = PrintfHello) =>
    /\ ~exec.usedPty
    /\ exec.result.state = "resolved"
    /\ IncludesText(exec.result.value, Hello)

\* C15: executeCommand resolves if and only if the spawned command exits
\* with code 0; for a non-zero exit code n it rejects with the error that
\* carries the command and 'Exit code: n'.  resolve or reject is called
\* exactly once per call, never before the exit.
C15_ExitCodeDecides ==
  /\ exec.settles = IF exec.pc = "settled" THEN 1 ELSE 0
  /\ exec.pc # "settled" => exec.result = Pending
  /\ (exec.pc = "settled" /\ exec.usedPty) =>
       /\ exec.exitCode = exec.code
       /\ exec.result.state = "resolved" <=> exec.exitCode = 0
       /\ exec.exitCode = 0 => exec.result = ResolvedWith(exec.output)
       /\ exec.exitCode # 0 =>
            exec.result = Rejected(CommandFailed(exec.command, exec.exitCode))

C15_Witness ==
  /\ exec.pc = "settled"
  /\ exec.usedPty
  /\ exec.command = ExitTwo
  /\ exec.settles = 1
  /\ exec.result = Rejected(CommandFailed(ExitTwo, 2))

----------------------------------------------------------------------------
(* Claims about the command-line program (specification SpecCli) *)

----------------------------------------------------------------------------
(* Claims about the order of the pipeline (specification Spec) *)

\* the command lines handed to executeCommand so far
CommandsRun == [i \in 1..Len(spawned) |-> spawned[i].command]

\* the process exits gitok has seen so far
ExitsSeen == SelectSeq(ops, LAMBDA o : o.op = "exit")

HasOp(kind) == \E i \in 1..Len(ops) : ops[i].op = kind

\* the git commands of a run, by the URL's sub path
ExpectedCommands ==
  IF parsed.subPath = <<>>
  THEN <<cloneCommand(parsed, outputDir), disableCommand>>
  ELSE <<cloneCommand(parsed, outputDir), initCommand, setCommand(parsed)>>

AllCommandsSucceeded ==
  /\ CommandsRun = ExpectedCommands
  /\ Len(ExitsSeen) = Len(ExpectedCommands)
  /\ \A i \in 1..Len(ExitsSeen) : ExitsSeen[i].ok

\* C17: the order of the pipeline is fixed: git clone first; then git
\* sparse-checkout disable if and only if the sub path is empty, and git
\* sparse-checkout init followed by set if and only if it is not; no
\* subprocess is started before the previous one has exited with code 0; the
\* renames, the removal of .git and the 'Done' message happen only after
\* every git subprocess has succeeded.
C17_PipelineOrder ==
  (pc \notin {"call", "checkExists"} /\ ~parsed.threw /\ outputDir # None) =>
    /\ Len(CommandsRun) <= Len(ExpectedCommands)
    /\ CommandsRun = SubSeq(ExpectedCommands, 1, Len(CommandsRun))
    /\ Len(ExitsSeen) <= Len(CommandsRun)
    /\ Len(CommandsRun) <= Len(ExitsSeen) + 1
    /\ \A i \in 2..Len(CommandsRun) : ExitsSeen[i - 1].ok
    /\ (HasOp("rename") \/ DoneLogged \/ (caught = NoError /\ HasOp("rm"))) =>
         AllCommandsSucceeded

C17_Witness ==
  /\ IsResolved
  /\ parsed.subPath # <<>>
  /\ Len(CommandsRun) = 3
  /\ HasOp("rename")
  /\ DoneLogged
  /\ AllCommandsSucceeded

\* the operations of a run: git subprocesses, renames, removals
OperationCount ==
  Len(spawned) + Cardinality({i \in 1..Len(ops) : ops[i].op \in {"rename", "rm"}})

\* C18 as claimed: every successful run performs between four and six
\* operations in sequence, counting the git subprocesses and the directory
\* rename and removal operations.
C18_Original == IsResolved => OperationCount \in 4..6

\* C18: every successful run performs between three and six operations in
\* sequence, counting the git subprocesses and the directory rename and
\* removal operations.
C18_ThreeToSixOperations ==
  IsResolved =>
    /\ OperationCount \in 3..6
    /\ Len(ops) = OperationCount
    /\ \A i \in 1..Len(ops) : ops[i].op \in {"rename", "rm"} \/ ops[i].ok

C18_Witness ==
  /\ IsResolved
  /\ parsed.subPath = <<>>
  /\ OperationCount = 3
  /\ ops = <<Op("exit", TRUE), Op("exit", TRUE), Op("rm", TRUE)>>

----------------------------------------------------------------------------
(* Claims about errors and cleanup (specification Spec) *)

\* C19 as claimed: every error gitok rejects with is an invalid-URL error,
\* the output-directory-exists error or a 'Command failed' error.
C19_Original ==
  IsRejected => settled.error.kind \in {"parse", "exists", "command"}

\* C19: every error gitok rejects with is an 'Invalid Git URL format' error,
\* the output-directory-exists error, a 'Command failed: ...' error of a git
\* command that exited with a non-zero code, the 'node-pty is required but
\* not available' error, or the error of a failed directory rename; a failed
\* directory removal never reaches the caller.
C19_ErrorKinds ==
  IsRejected =>
    LET e == settled.error IN
    /\ e.kind \in {"parse", "exists", "command", "nodepty", "fs"}
    /\ e.kind = "parse" => e.detail[1] \in InvalidFormatMessages /\ ops = <<>>
    /\ e.kind = "exists" => e.detail = outputDir /\ ops = <<>>
    /\ e.kind = "command" =>
         /\ spawned # <<>>
         /\ e.detail[1] = LastCommand
         /\ e.detail[2] # 0
         /\ ~ExitsSeen[Len(ExitsSeen)].ok
    /\ e.kind = "nodepty" => ~env.ptyAvailable /\ spawned = <<>>
    /\ e.kind = "fs" => e.detail = <<"rename">> /\ HasOp("rename")

C19_Witness ==
  /\ IsRejected
  /\ settled.error = FsError("rename")
  /\ ops[Len(ops)] = Op("rm", FALSE)

\* C20: cleanup is complete on every path: once gitok has settled, resolved
\* or rejected, no temporary directory '<outputDir>_temp_<timestamp>' of the
\* run remains on disk; in particular not when the second rename fails
\* after the first one succeeded.
C20_NoTempDirRemains ==
  (pc = "done" /\ tempDir # None) =>
    PathOf(tempDir) \notin fs.dirs \cup fs.files

\* the text of a sequence of chunks
RECURSIVE Flatten(_)
Flatten(chunks) == IF chunks = <<>> THEN <<>> ELSE Head(chunks) \o Flatten(Tail(chunks))

\* the lines of the text the terminal has been given so far
TerminalLines == Split(Flatten(exec.written), "\n")

\* C21: while a command runs with the line filter of gitok (git clone, git
\* sparse-checkout set), no line of the output that begins with 'remote: '
\* is ever written to the terminal, whatever the boundaries of the chunks the
\* output arrives in, a line split across two chunks included.
C21_RemoteLinesFiltered ==
  (exec.pc \in {"running", "settled"} /\ exec.transform = "filter") =>
    \A i \in 1..Len(TerminalLines) : ~StartsWith(TerminalLines[i], RemotePrefix)

\* the chunks the terminal is given for the chunks that arrived
RECURSIVE WrittenFor(_, _)
WrittenFor(kind, chunks) ==
  IF chunks = <<>> THEN <<>>
  ELSE LET p == ApplyTransform(kind, Head(chunks))
       IN  (IF p = Null THEN <<>> ELSE <<p>>) \o WrittenFor(kind, Tail(chunks))

\* C22: the value executeCommand resolves with is the concatenation, in
\* arrival order, of every chunk the process emitted before it exited;
\* outputTransform changes only what is written to the terminal, never the
\* returned output, and a chunk for which outputTransform returns null is
\* not written to the terminal at all.
C22_OutputIsAllChunks ==
  exec.pc \in {"running", "settled"} =>
    /\ exec.output = Flatten(exec.emitted)
    /\ exec.written = WrittenFor(exec.transform, exec.emitted)
    /\ \A i \in 1..Len(exec.written) : exec.written[i] # Null
    /\ (exec.pc = "settled" /\ exec.result.state = "resolved") =>
         /\ exec.result.value = Flatten(exec.emitted)
         /\ exec.remaining = <<>>

C22_Witness ==
  /\ exec.pc = "settled"
  /\ exec.transform = "drop"
  /\ exec.emitted = <<RemotePrefix \o <<"x">>, NewLine \o <<"o","k">>>>
  /\ exec.written = <<NewLine \o <<"o","k">>>>
  /\ exec.result = ResolvedWith(GitOutput)

----------------------------------------------------------------------------
(* Claims about errors, other processes and termination *)

\* a step of the pipeline has failed: a git process exited with a non-zero
\* code, or a rename was rejected
FailedStep(i) == ops[i].op \in {"exit", "rename"} /\ ~ops[i].ok

\* C23: the error gitok rejects with after a failed step of the pipeline is
\* the error of that step: a failure of the cleanup on the error path is
\* only logged as a warning and never replaces or hides the original error,
\* and gitok never resolves after a step has failed.
C23_StepErrorKept ==
  /\ (pc = "done" /\ caught # NoError) => settled = Rejected(caught)
  /\ \A i \in 1..Len(ops) :
       FailedStep(i) =>
         /\ ~IsResolved
         /\ ~DoneLogged
         /\ \A j \in (i + 1)..Len(ops) : ops[j].op = "rm"
         /\ caught = IF ops[i].op = "rename" THEN FsError("rename")
                     ELSE CommandFailed(LastCommand, caught.detail[2])
         /\ ops[i].op = "exit" => caught.detail[2] \in ExitCodes \ {0}
  /\ (pc = "done" /\ caught # NoError /\ ops # <<>> /\ ops[Len(ops)] = Op("rm", FALSE)) =>
       WarnedFor(outputDir)

C23_Witness ==
  /\ pc = "done"
  /\ ops = <<Op("exit", TRUE), Op("exit", FALSE), Op("rm", FALSE)>>
  /\ settled = Rejected(CommandFailed(LastCommand, 128))
  /\ WarnedFor(outputDir)
  /\ PathOf(outputDir) \in fs.dirs

\* C24: gitok never removes a directory it did not create: also when
\* another process creates the output directory between the existence check
\* of gitok and the start or failure of git clone, the cleanup on the error
\* path does not delete that directory or its contents.
C24_OnlyOwnDirectoriesRemoved ==
  /\ foreign \subseteq fs.dirs \cup fs.files
  /\ fs0.dirs \subseteq fs.dirs
  /\ fs0.files \subseteq fs.files

\* characters that are special inside a double-quoted shell string: the
\* double quote, the dollar sign, the backslash (the backquote, which is one
\* too, cannot be written in a string of this module)
ShellSpecial == {"\"", "$", "\\"}

HasShellSpecial(s) == IsString(s) /\ \E i \in 1..Len(s) : s[i] \in ShellSpecial

\* C25: for every URL parseGitUrl accepts, none of owner, repo, branch and
\* subPath contains a character that is special inside a double-quoted shell
\* string (double quote, '$', backtick, backslash), so every command line
\* gitok hands to sh -c is one of the fixed git commands with the parsed
\* values as single quoted arguments.
C25_NoShellSpecialCharacters ==
  (pc # "call" /\ ~parsed.threw) =>
    \A v \in {parsed.owner, parsed.repo, parsed.branch, parsed.subPath} :
      ~HasShellSpecial(v)

----------------------------------------------------------------------------
(* Claims about the result of parseGitUrl (specification SpecParse) *)

NoOptions == [output |-> Undefined, branch |-> Undefined]

\* C26: for every URL parseGitUrl accepts the result is well formed: owner
\* and repoName are non-empty, repo equals repoName, host is github.com
\* exactly when platform is github and gitlab.com exactly when platform is
\* gitlab, branch is null or a non-empty string without '/', and gitUrl is
\* 'https://' + host + '/' + owner + '/' + repoName + '.git'; hence the
\* default name of the output directory is never empty.
C26_WellFormedResult ==
  (pc = "parsed" /\ ~parsed.threw) =>
    /\ parsed.owner # <<>>
    /\ parsed.repoName # <<>>
    /\ parsed.repo = parsed.repoName
    /\ parsed.host = GithubHost <=> parsed.platform = "github"
    /\ parsed.host = GitlabHost <=> parsed.platform = "gitlab"
    /\ parsed.platform \in {"github", "gitlab"}
    /\ \/ parsed.branch = Null
       \/ parsed.branch # <<>> /\ IsString(parsed.branch) /\ ~Includes(parsed.branch, "/")
    /\ parsed.gitUrl = Https \o parsed.host \o Slash \o parsed.owner \o Slash
                       \o parsed.repoName \o DotGit
    /\ OutputDirOf(parsed, NoOptions) # <<>>

\* which of the four patterns match the normalized URL, in the order
\* GitHub basic, GitHub tree, GitLab basic, GitLab tree
PatternsMatching ==
  LET u == NormalizeUrl(url)
      m == << githubBasicMatch(u).matched, githubTreeMatch(u).matched,
              gitlabBasicMatch(u).matched, gitlabTreeMatch(u).matched >>
  IN  {i \in 1..4 : m[i]}

\* C27: each URL is classified by at most one of the four patterns (GitHub
\* basic, GitHub tree, GitLab basic, GitLab tree): no URL matches two of
\* them, so the result of parseGitUrl does not depend on the order in which
\* the patterns are tried.
C27_AtMostOnePattern ==
  (pc = "parsed" /\ Truthy(url)) =>
    LET matching == PatternsMatching IN
    /\ Cardinality(matching) <= 1
    /\ (~parsed.threw) => Cardinality(matching) = 1
    /\ (~parsed.threw) =>
         parsed.platform = (IF matching \subseteq {1, 2} THEN "github" ELSE "gitlab")
    /\ (~parsed.threw) => (parsed.branch = Null <=> matching \subseteq {1, 3})

C27_Witness ==
  /\ Parsed
  /\ GitlabUrl
  /\ SegsOf(given) = <<NameO, NameM, Dash, TreeWord, NameM, TreeWord>>
  /\ PatternsMatching = {4}
  /\ ~parsed.threw

\* C28 as claimed: for every URL u that parseGitUrl accepts and that does
\* not end in '/', parseGitUrl(u + '/') and parseGitUrl(' ' + u + ' ')
\* return the same result as parseGitUrl(u).
C28_Original ==
  (pc = "parsed" /\ IsString(url) /\ ~parsed.threw /\ ~EndsWith(url, Slash)) =>
    /\ parseGitUrl(url \o Slash) = parsed
    /\ parseGitUrl(<<" ">> \o url \o <<" ">>) = parsed

\* C28: surrounding white space and one trailing slash do not change the
\* parse: for every URL u that parseGitUrl accepts, that neither begins nor
\* ends with white space and does not end in '/', parseGitUrl(u + '/') and
\* parseGitUrl(' ' + u + ' ') return the same result as parseGitUrl(u).
C28_SlashAndSpaceIgnored ==
  (pc = "parsed" /\ given.decor \in {"slash", "spaces"}) =>
    LET plain == parseGitUrl(BuildUrl([given EXCEPT !.decor = "none"]))
    IN  ~plain.threw => parsed = plain

C28_Witness ==
  /\ pc = "parsed"
  /\ given.decor = "spaces"
  /\ GithubUrl
  /\ SegsOf(given) = <<NameO, NameM, TreeWord, NameM, NameO>>
  /\ url = <<" ">> \o UrlOf(GithubHost, SegsOf(given)) \o <<" ">>
  /\ ~parsed.threw
  /\ parsed.subPath = NameO

----------------------------------------------------------------------------
(* Termination (specification SpecFair) *)

\* C29: given that every spawned process exits and every file-system
\* operation returns, every call of gitok settles, resolving or rejecting,
\* exactly once; the 'Done: <path>' message is printed if and only if the
\* call resolves.
C29_SettlesExactlyOnce ==
  /\ <>(pc = "done" /\ settled # Pending)
  /\ [](settled # Pending <=> pc = "done")
  /\ [][settled # Pending => settled' = settled]_vars
  /\ [](DoneLogged <=> IsResolved)

C29_Witness ==
  /\ pc = "done"
  /\ IsRejected
  /\ ~DoneLogged
  /\ Len(ops) = 4
  /\ ops[3] = Op("exit", FALSE)

====
